---- MODULE Spec2Model ----
(***************************************************************************)
(* cpp-gray: gray_code<Unsigned>, a wrapper keeping an unsigned integer in *)
(* reflected binary (Gray) code.                                           *)
(*                                                                         *)
(* A value of an unsigned integer type is modelled by its bit pattern: the *)
(* set of the positions of its set bits (bit 0 is the least significant).  *)
(* 64-bit and 32-bit patterns are therefore exact; nothing is scaled.      *)
(***************************************************************************)
EXTENDS Integers, FiniteSets, Sequences, TLC

VARIABLES
    digits,   \* std::numeric_limits<value_type>::digits of the instantiation
    gnuc,     \* TRUE when the build defines __GNUC__ or __clang__
    msb,      \* the constexpr value_type msb of operator++ / operator--
    value,    \* gray_code::value of the object under test
    other,    \* gray_code::value of a second object of the same type
    op,       \* the operation applied last
    old,      \* value before that operation
    arg,      \* its unsigned / gray_code / bool argument (a bit pattern)
    pos,      \* its std::size_t argument
    ret,      \* the gray_code or unsigned it returned (a bit pattern)
    retb,     \* the bool it returned
    ub,       \* TRUE when it evaluated an expression of undefined behaviour
    steps     \* number of mutating operations since construction

vars == <<digits, gnuc, msb, value, other, op, old, arg, pos, ret, retb, ub, steps>>

----------------------------------------------------------------------------
(* Platform and bounds *)

\* width of int and of unsigned int (the parameter type of __builtin_parity,
\* the type of the literal 1 in `1 << (digits - 1)`)
IntDigits == 32

\* the unsigned widths gray_code is instantiated with
Widths == {8, 16, 32, 64}

\* unsigned inputs 0 .. MaxNat are tried for every width
MaxNat == 24
\* the inputs 2^W - 1 - n, n in 0 .. MaxTop, are tried for every width
MaxTop == 2
\* right-hand operands 0 .. MaxOperand of the binary operations
MaxOperand == 4
\* shift counts 0 .. MaxShift (and some larger ones below the width)
MaxShift == 2
\* mutating operations applied to one object after its construction
MaxSteps == 2
\* in the widths up to this one every unsigned value is tried
ExhaustiveDigits == 8
\* operands 0 .. MaxMutOperand of the assignments
MaxMutOperand == 2
\* addends 0 .. MaxAddend of the additions
MaxAddend == 7
\* widths 1 .. MaxDigits of the conversion loop taken on its own
MaxDigits == 8

----------------------------------------------------------------------------
(* Bit patterns and the built-in integer operations of C++ on them *)

Bits(w) == 0 .. (w - 1)

\* conversion to an unsigned type of w bits: the value modulo 2^w
Trunc(v, w) == v \cap Bits(w)

\* the bit pattern of a natural number below 2^31
NatBits(n) == {i \in 0 .. 30 : (n \div (2 ^ i)) % 2 = 1}

BitXor(a, b) == (a \ b) \cup (b \ a)
BitAnd(a, b) == a \cap b
BitOr(a, b) == a \cup b
\* ~v in a type of w bits
BitNot(v, w) == Bits(w) \ v
\* v >> k of a non-negative v
ShiftR(v, k) == {i - k : i \in {j \in v : j >= k}}
\* v << k in a type of w bits, k < w
ShiftL(v, k, w) == {i + k : i \in {j \in v : j + k < w}}

\* v + 1 in a type of w bits (two's complement, wraps)
AddOne(v, w) ==
    LET free == Bits(w) \ v
    IN  IF free = {} THEN {}
        ELSE LET k == CHOOSE i \in free : \A j \in free : i <= j
             IN  (v \ Bits(k)) \cup {k}

\* -v in a type of w bits: ~v + 1
Negate(v, w) == AddOne(BitNot(v, w), w)

\* Integral promotion: operands narrower than int are computed in int.
WorkDigits(w) == IF w < IntDigits THEN IntDigits ELSE w

\* conversion of an int bit pattern to value_type (sign-extended when the
\* destination is wider than int, reduced modulo 2^w otherwise)
FromInt(v, w) ==
    IF w <= IntDigits THEN Trunc(v, w)
    ELSE IF (IntDigits - 1) \in v THEN v \cup (IntDigits .. (w - 1)) ELSE v

----------------------------------------------------------------------------
(* Inputs *)

Ones(w) == Bits(w)

\* bit positions around the middle and the top of the type
Probes(w) == {w \div 2 - 1, w \div 2, w \div 2 + 1, w - 2, w - 1}

\* the unsigned values the operations are tried on, for a type of w bits:
\* all of them in a narrow type; otherwise the small ones, the largest
\* ones, the powers of two 2^k and the 2^k - 1 at the probed positions
Inputs(w) ==
    IF w <= ExhaustiveDigits THEN SUBSET Bits(w)
    ELSE {Trunc(NatBits(n), w) : n \in 0 .. MaxNat}
         \cup {BitNot(Trunc(NatBits(n), w), w) : n \in 0 .. MaxTop}
         \cup {{k} : k \in Probes(w)}
         \cup {Bits(k) : k \in Probes(w)}

\* right-hand operands of comparisons and binary bitwise operations
Operands(w) ==
    {Trunc(NatBits(n), w) : n \in 0 .. MaxOperand}
    \cup {Ones(w), {w - 1}, {w \div 2}, Bits(w \div 2)}

\* shift counts below the width
ShiftCounts(w) == (0 .. MaxShift) \cup {w \div 2, w - 1}

\* operands of the assignments and compound assignments
MutOperands(w) ==
    {Trunc(NatBits(n), w) : n \in 0 .. MaxMutOperand} \cup {Ones(w)}

\* std::size_t shift counts below, at and above the width of the type and
\* of the type its value is promoted to
AnyShiftCounts(w) ==
    {1, w - 1, w, IntDigits, WorkDigits(w), WorkDigits(w) + 1}

\* the unsigned values whose Gray codes are added: the small ones, and the
\* 2^k and 2^k - 1 around the middle and the top of the type
Addends(w) ==
    {Trunc(NatBits(n), w) : n \in 0 .. MaxAddend}
    \cup {{k} : k \in Probes(w)}
    \cup {Bits(k) : k \in Probes(w) \cup {w \div 2 + 2}}
    \cup {Ones(w)}

\* the same sets, tabulated by width
InputsOf == [w \in Widths |-> Inputs(w)]
OperandsOf == [w \in Widths |-> Operands(w)]
ShiftCountsOf == [w \in Widths |-> ShiftCounts(w)]
MutOperandsOf == [w \in Widths |-> MutOperands(w)]
AnyShiftCountsOf == [w \in Widths |-> AnyShiftCounts(w)]
AddendsOf == [w \in Widths |-> Addends(w)]

----------------------------------------------------------------------------
(* gray.inl: construction and conversion *)

\* gray_code with the shift made to the left
gray_code_shifted_left(v, w) == Trunc(BitXor(ShiftL(v, 1, w), v), w)

\* gray_code(value_type value): value( (value >> 1) ^ value )
gray_code(v, w) == Trunc(BitXor(ShiftR(v, 1), v), w)

\* gray_code(bool value): value(value)
gray_code_bool(b) == IF b THEN {0} ELSE {}

\* gray without the conversion: the binary representation is kept
gray_unconverted(v, w) == Trunc(v, w)

\* gray(Unsigned value): return gray_code<Unsigned>(value)
gray(v, w) == gray_code(v, w)

\* the loop body run once instead of once per mask
from_gray_loop_once(res, mask, w) ==
    IF mask = 0 THEN res ELSE Trunc(BitXor(res, ShiftR(res, mask)), w)

\* the loop of operator value_type: res ^= res >> mask, mask >>= 1, until
\* mask is 0
RECURSIVE from_gray_loop(_, _, _)
from_gray_loop(res, mask, w) ==
    IF mask = 0 THEN res
    ELSE from_gray_loop(Trunc(BitXor(res, ShiftR(res, mask)), w), mask \div 2, w)

\* operator value_type returning the stored representation
operator_value_type_raw(v, w) == v

\* operator value_type with the mask starting at digits / 4
operator_value_type_quarter(v, w) == from_gray_loop(v, w \div 4, w)

\* operator value_type(): mask starts at digits / 2
operator_value_type(v, w) == from_gray_loop(v, w \div 2, w)

\* operator bool(): static_cast<bool>(value)
operator_bool(v) == v # {}

----------------------------------------------------------------------------
(* gray.inl: parity *)

\* __builtin_parity(unsigned int): number of 1-bits of the argument modulo 2
builtin_parity(x) == Cardinality(x) % 2

\* the portable loop: code.value ^= (code.value >> i) for i = digits / 2,
\* halved until 0
RECURSIVE parity_fold(_, _, _)
parity_fold(v, i, w) ==
    IF i = 0 THEN v
    ELSE parity_fold(Trunc(BitXor(v, ShiftR(v, i)), w), i \div 2, w)

\* is_odd(code): the intrinsic receives code.value converted to unsigned int;
\* the fallback returns code.value & 1 after the loop
is_odd(v, w, g) ==
    IF g THEN builtin_parity(Trunc(v, IntDigits)) # 0
    ELSE BitAnd(parity_fold(v, w \div 2, w), {0}) # {}

\* is_even(code): not is_odd(code)
is_even(v, w, g) == ~ is_odd(v, w, g)

\* the article's loop: value ^= (value >> i) for i = digits / 2, halved
\* while i > 2
RECURSIVE parity_fold_to_nibble(_, _, _)
parity_fold_to_nibble(v, i, w) ==
    IF i <= 2 THEN v
    ELSE parity_fold_to_nibble(Trunc(BitXor(v, ShiftR(v, i)), w), i \div 2, w)

\* the lookup table 0b0110'1001'1001'0110, as the positions of its 1-bits
parity_table == {1, 2, 4, 7, 8, 11, 13, 14}

\* the number held by the four low bits, value & 0xf
low_nibble(v) ==
    (IF 0 \in v THEN 1 ELSE 0) + (IF 1 \in v THEN 2 ELSE 0)
    + (IF 2 \in v THEN 4 ELSE 0) + (IF 3 \in v THEN 8 ELSE 0)

\* parity without the table: the low bit after the shortened loop
parity_without_table(v, w) ==
    0 \in parity_fold_to_nibble(v, w \div 2, w)

\* parity(value) of the article: the shortened loop, value &= 0xf, then
\* (table >> value) & 1
parity(v, w) ==
    low_nibble(parity_fold_to_nibble(v, w \div 2, w)) \in parity_table

\* the by-value parameter of is_odd when the function returns: the
\* fallback folds code.value in place, the intrinsic only reads it
is_odd_parameter(v, w, g) == IF g THEN v ELSE parity_fold(v, w \div 2, w)

\* an argument bound to a reference parameter: the caller's object is the
\* object the function body works on
pass_by_reference(v, p) == p

\* an argument passed to a parameter of type gray_code<Unsigned>: the
\* parameter is a copy, so the caller's object keeps its value v whatever
\* value p the parameter has when the function returns
pass_by_value(v, p) == v

\* gray_code(const gray_code&) = default: the copy holds the same value
copy_constructor(v) == v

----------------------------------------------------------------------------
(* gray.inl: increment and decrement *)

\* constexpr value_type msb = 1 << (digits - 1): the shift is made in int.
\* With digits - 1 >= the width of int the shift is undefined; the values a
\* build can give it are the count taken modulo the width of int (then the
\* int is sign-extended), every bit shifted out, and the shift made in
\* value_type.
msb_values(w) ==
    IF w - 1 < IntDigits
    THEN {FromInt(ShiftL({0}, w - 1, IntDigits), w)}
    ELSE {FromInt(ShiftL({0}, (w - 1) % IntDigits, IntDigits), w), {}, {w - 1}}

\* the shift of msb's initialiser is undefined when its count reaches the
\* width of int
msb_undefined(w) == w - 1 >= IntDigits

\* auto y = value & -value; value ^= (y << 1);
flip_left_of_lowest(v, w) ==
    LET wd == WorkDigits(w)
        y  == BitAnd(v, Negate(v, wd))
    IN  Trunc(BitXor(v, ShiftL(y, 1, wd)), w)

\* operator++(): the value it leaves in the object
operator_inc(v, w, g, m) ==
    IF is_odd(v, w, g)
    THEN IF v = m THEN {} ELSE flip_left_of_lowest(v, w)
    ELSE Trunc(BitXor(v, {0}), w)

\* operator--(): the value it leaves in the object
operator_dec(v, w, g, m) ==
    IF is_odd(v, w, g)
    THEN Trunc(BitXor(v, {0}), w)
    ELSE IF v = {} THEN m ELSE flip_left_of_lowest(v, w)

\* operator++(int) returning *this after the increment
operator_post_inc_result_after(v, w, g, m) == operator_inc(v, w, g, m)

\* operator++(int): auto res = *this; operator++(); return res;
\* the copy it returns
operator_post_inc_result(v, w, g, m) == v
\* the value it leaves in the object
operator_post_inc(v, w, g, m) == operator_inc(v, w, g, m)

\* operator--(int): auto res = *this; operator--(); return res;
operator_post_dec_result(v, w, g, m) == v
operator_post_dec(v, w, g, m) == operator_dec(v, w, g, m)

\* neighbors(code) of the article, first element of the pair: branches on
\* code.value == msb, code.value == 0, otherwise
neighbors_first(v, w, m) ==
    IF v = m THEN flip_left_of_lowest(v, w)
    ELSE IF v = {} THEN m
    ELSE flip_left_of_lowest(v, w)

\* neighbors(code), second element of the pair
neighbors_second(v, w, m) ==
    IF v = m THEN {}
    ELSE IF v = {} THEN {0}
    ELSE Trunc(BitXor(v, {0}), w)

----------------------------------------------------------------------------
(* gray.inl: comparison *)

\* operator==(gray_code lhs, gray_code rhs)
operator_eq(l, r) == l = r
\* operator!=(gray_code lhs, gray_code rhs)
operator_ne(l, r) == l # r
\* operator== comparing the unsigned with the representation as it is
operator_eq_gu_raw(l, r, w) == r = l

\* operator==(gray_code lhs, Unsigned rhs): (rhs ^ (rhs >> 1)) == lhs.value
operator_eq_gu(l, r, w) == Trunc(BitXor(r, ShiftR(r, 1)), WorkDigits(w)) = l
\* operator!=(gray_code lhs, Unsigned rhs)
operator_ne_gu(l, r, w) == Trunc(BitXor(r, ShiftR(r, 1)), WorkDigits(w)) # l
\* operator==(Unsigned lhs, gray_code rhs): (lhs ^ (lhs >> 1)) == rhs.value
operator_eq_ug(l, r, w) == Trunc(BitXor(l, ShiftR(l, 1)), WorkDigits(w)) = r
\* operator!=(Unsigned lhs, gray_code rhs)
operator_ne_ug(l, r, w) == Trunc(BitXor(l, ShiftR(l, 1)), WorkDigits(w)) # r

----------------------------------------------------------------------------
(* gray.inl: bitwise operations; each op= computes in the promoted type and
   converts the result back to value_type *)

\* operator&=(gray_code other): value &= other.value
operator_and_assign(v, o, w) == Trunc(BitAnd(v, o), w)
\* operator|=(gray_code other): value |= other.value
operator_or_assign(v, o, w) == Trunc(BitOr(v, o), w)
\* operator^=(gray_code other): value ^= other.value
operator_xor_assign(v, o, w) == Trunc(BitXor(v, o), w)
\* operator>>=(std::size_t pos): value >>= pos
operator_shr_assign(v, n, w) == Trunc(ShiftR(v, n), w)
\* operator<<=(std::size_t pos): value <<= pos
operator_shl_assign(v, n, w) == Trunc(ShiftL(v, n, WorkDigits(w)), w)

\* operator& acting on the represented values
operator_and_of_values(l, r, w) ==
    gray_code(BitAnd(operator_value_type(l, w), operator_value_type(r, w)), w)

\* operator&(gray_code lhs, gray_code rhs): return lhs &= rhs
operator_and(l, r, w) == operator_and_assign(l, r, w)
\* operator|(gray_code lhs, gray_code rhs): return lhs |= rhs
operator_or(l, r, w) == operator_or_assign(l, r, w)
\* operator^(gray_code lhs, gray_code rhs): return lhs ^= rhs
operator_xor(l, r, w) == operator_xor_assign(l, r, w)
\* operator~(gray_code val): val.value = ~val.value
operator_not(v, w) == Trunc(BitNot(v, WorkDigits(w)), w)
\* operator>>(gray_code val, std::size_t pos): return val >>= pos
operator_shr(v, n, w) == operator_shr_assign(v, n, w)
\* operator<<(gray_code val, std::size_t pos): return val <<= pos
operator_shl(v, n, w) == operator_shl_assign(v, n, w)

----------------------------------------------------------------------------
(* gray.inl: assignment, compound assignment with value_type and bool,
   operations with bool, compound assignment to an unsigned, swap *)

\* conversion of a bool to an integer type: 0 or 1
FromBool(b) == IF b THEN {0} ELSE {}

\* operator=(value_type) keeping the bits the object already holds
operator_assign_merging(v, t, w) ==
    Trunc(BitOr(v, BitXor(ShiftR(t, 1), t)), w)

\* operator=(value_type other): value = (other >> 1) ^ other
\* (v is the value held before, which the assignment does not read)
operator_assign(v, t, w) == Trunc(BitXor(ShiftR(t, 1), t), w)

\* operator=(bool other): value = other
operator_assign_bool(v, b, w) == Trunc(FromBool(b), w)

\* operator^=(value_type) converting its operand to Gray code first
operator_xor_assign_u_converted(v, t, w) ==
    Trunc(BitXor(v, Trunc(BitXor(ShiftR(t, 1), t), w)), w)

\* operator&=(value_type other): value &= other
operator_and_assign_u(v, t, w) == Trunc(BitAnd(v, t), w)
\* operator|=(value_type other): value |= other
operator_or_assign_u(v, t, w) == Trunc(BitOr(v, t), w)
\* operator^=(value_type other): value ^= other
operator_xor_assign_u(v, t, w) == Trunc(BitXor(v, t), w)

\* operator|=(bool) taking true for the all-ones pattern
operator_or_assign_b_all_ones(v, b, w) ==
    Trunc(BitOr(v, IF b THEN Ones(w) ELSE {}), w)

\* operator&=(bool other): value &= other
operator_and_assign_b(v, b, w) == Trunc(BitAnd(v, FromBool(b)), w)
\* operator|=(bool other): value |= other
operator_or_assign_b(v, b, w) == Trunc(BitOr(v, FromBool(b)), w)
\* operator^=(bool other): value ^= other
operator_xor_assign_b(v, b, w) == Trunc(BitXor(v, FromBool(b)), w)

\* operator&(gray_code lhs, bool rhs): return lhs &= rhs
operator_and_gb(l, b, w) == operator_and_assign_b(l, b, w)
\* operator&(bool lhs, gray_code rhs): return rhs &= lhs
operator_and_bg(b, r, w) == operator_and_assign_b(r, b, w)
\* operator|(gray_code lhs, bool rhs): return lhs |= rhs
operator_or_gb(l, b, w) == operator_or_assign_b(l, b, w)
\* operator|(bool lhs, gray_code rhs): return rhs |= lhs
operator_or_bg(b, r, w) == operator_or_assign_b(r, b, w)
\* operator^(gray_code lhs, bool rhs): return lhs ^= rhs
operator_xor_gb(l, b, w) == operator_xor_assign_b(l, b, w)
\* operator^(bool lhs, gray_code rhs): return rhs ^= lhs
operator_xor_bg(b, r, w) == operator_xor_assign_b(r, b, w)

\* operator&=(Unsigned& lhs, gray_code rhs): return lhs &= rhs.value
operator_and_assign_ug(t, v, w) == Trunc(BitAnd(t, v), w)
\* operator|=(Unsigned& lhs, gray_code rhs): return lhs |= rhs.value
operator_or_assign_ug(t, v, w) == Trunc(BitOr(t, v), w)
\* operator^=(Unsigned& lhs, gray_code rhs): return lhs ^= rhs.value
operator_xor_assign_ug(t, v, w) == Trunc(BitXor(t, v), w)

\* swap without the temporary: rhs receives the value lhs was just given
swap_rhs_overwritten(l, r) == r

\* swap(lhs, rhs): tmp = lhs.value; lhs.value = rhs.value; rhs.value = tmp
swap_lhs(l, r) == r
swap_rhs(l, r) == l

\* value >>= pos and value <<= pos are undefined when pos reaches the width
\* of the promoted left operand
shift_undefined(n, w) == n >= WorkDigits(w)

\* what operator>>= leaves: the shift when it is defined; otherwise what
\* builds produce, the shift by the count reduced modulo the operand width
\* (the shift instruction of x86) or zero (a folded or saturating shift)
operator_shr_assign_outcomes(v, n, w) ==
    IF shift_undefined(n, w)
    THEN {operator_shr_assign(v, n % WorkDigits(w), w), {}}
    ELSE {operator_shr_assign(v, n, w)}

\* operator<<= that keeps the promoted result
operator_shl_assign_outcomes_promoted(v, n, w) ==
    IF shift_undefined(n, w)
    THEN {ShiftL(v, n % WorkDigits(w), WorkDigits(w)), {}}
    ELSE {ShiftL(v, n, WorkDigits(w))}

\* what operator<<= leaves, in the same way
operator_shl_assign_outcomes(v, n, w) ==
    IF shift_undefined(n, w)
    THEN {operator_shl_assign(v, n % WorkDigits(w), w), {}}
    ELSE {operator_shl_assign(v, n, w)}

----------------------------------------------------------------------------
(* Harold Lucal's addition, the two listings of the article *)

\* a != b for two booleans (the ^ of two bool operands)
bool_xor(a, b) == a # b

\* lhs.value < rhs.value on unsigned values
less(a, b) == \E k \in b \ a : \A j \in a \ b : j < k

\* the loop of the naive listing, one iteration per bit i < digits, on the
\* locals s = [lhs_p, rhs_p, res, i]: res |= (res_i << i), then the
\* parities are updated from their copies
RECURSIVE add_naive_loop(_, _, _, _)
add_naive_loop(l, r, s, w) ==
    IF s.i >= w THEN s.res
    ELSE LET lhs_i == s.i \in l
             rhs_i == s.i \in r
             res_i == bool_xor(bool_xor(s.lhs_p /\ s.rhs_p, lhs_i), rhs_i)
         IN  add_naive_loop(l, r,
                 [lhs_p |-> bool_xor(s.lhs_p /\ ~s.rhs_p, lhs_i),
                  rhs_p |-> bool_xor(~s.lhs_p /\ s.rhs_p, rhs_i),
                  res |-> operator_or_assign_u(s.res,
                              ShiftL(FromBool(res_i), s.i, WorkDigits(w)), w),
                  i |-> s.i + 1],
                 w)

\* operator+ (naive translation): lhs_p = is_odd(lhs), rhs_p = is_odd(rhs),
\* res{} and the loop
add_naive(l, r, w, g) ==
    add_naive_loop(l, r,
                   [lhs_p |-> is_odd(l, w, g), rhs_p |-> is_odd(r, w, g),
                    res |-> {}, i |-> 0],
                   w)

\* the first loop of the final listing, while (rhs), on the locals
\* s = [lhs, rhs, lhs_p, rhs_p, res, i]: the state it ends in
RECURSIVE add_first_loop(_, _)
add_first_loop(s, w) ==
    IF ~operator_bool(s.rhs) THEN s
    ELSE LET res_i == s.lhs_p /\ s.rhs_p
             lhs_i == 0 \in s.lhs
             rhs_i == 0 \in s.rhs
         IN  add_first_loop(
                 [lhs |-> operator_shr_assign(s.lhs, 1, w),
                  rhs |-> operator_shr_assign(s.rhs, 1, w),
                  lhs_p |-> bool_xor(s.lhs_p /\ ~res_i, lhs_i),
                  rhs_p |-> bool_xor(s.rhs_p /\ ~res_i, rhs_i),
                  res |-> operator_xor_assign_u(s.res,
                              ShiftL(FromBool(res_i), s.i, WorkDigits(w)), w),
                  i |-> s.i + 1],
                 w)

\* the second loop, while (not lhs_p): the count i it ends with, or no
\* return when lhs is exhausted with lhs_p false (every further iteration
\* reads 0 from lhs)
RECURSIVE add_second_loop(_, _)
add_second_loop(s, w) ==
    IF s.lhs_p THEN [returns |-> TRUE, i |-> s.i]
    ELSE IF s.lhs = {} THEN [returns |-> FALSE, i |-> s.i]
    ELSE add_second_loop([lhs |-> operator_shr_assign(s.lhs, 1, w),
                          lhs_p |-> 0 \in s.lhs,
                          i |-> s.i + 1],
                         w)

\* lhs_p << i is a shift of the int 1: undefined when i reaches the width
\* of int
carry_undefined(i) == i >= IntDigits

\* the values res ^= lhs_p << i can be given: the int converted to
\* value_type; for an undefined shift the count modulo the width of int,
\* or zero
carry_values(i, w) ==
    IF carry_undefined(i)
    THEN {FromInt(ShiftL({0}, i % IntDigits, IntDigits), w), {}}
    ELSE {FromInt(ShiftL({0}, i, IntDigits), w)}

\* operator+ (final optimised version): the outcomes of a call, each with
\* the result, the iterations of both loops, whether the call returns and
\* whether it met an undefined shift
add_optimised(l0, r0, w, g) ==
    LET l == IF less(l0, r0) THEN r0 ELSE l0
        r == IF less(l0, r0) THEN l0 ELSE r0
        a == add_first_loop([lhs |-> l, rhs |-> r,
                             lhs_p |-> is_odd(l, w, g), rhs_p |-> is_odd(r, w, g),
                             res |-> operator_xor(l, r, w), i |-> 0],
                            w)
        b == add_second_loop([lhs |-> a.lhs, lhs_p |-> a.lhs_p, i |-> a.i], w)
    IN  IF ~a.rhs_p
        THEN {[res |-> a.res, iterations |-> a.i, returns |-> TRUE, ub |-> FALSE]}
        ELSE IF ~b.returns
        THEN {[res |-> a.res, iterations |-> b.i, returns |-> FALSE, ub |-> FALSE]}
        ELSE {[res |-> operator_xor_assign_u(a.res, c, w), iterations |-> b.i,
               returns |-> TRUE, ub |-> carry_undefined(b.i)]
              : c \in carry_values(b.i, w)}

----------------------------------------------------------------------------
(* The program: blocks in the manner of the test program. A block constructs
   one gray_code<Unsigned> object, applies mutating operations to it, takes
   one observation (an operation that receives the object by value or by
   const reference and returns a result) and ends. What an operation does
   depends on the object alone, so every value an object can hold and every
   result an operation can give on it is reached this way. *)

Mutators ==
    {"operator++", "operator--", "operator++(int)", "operator--(int)",
     "gray = unsigned", "gray = bool",
     "gray &= gray", "gray |= gray", "gray ^= gray",
     "gray &= unsigned", "gray |= unsigned", "gray ^= unsigned",
     "gray &= bool", "gray |= bool", "gray ^= bool",
     "gray >>= pos", "gray <<= pos", "swap",
     "copy", "copy = gray++", "++copy"}

\* the object is alive and no observation has ended its block
Live == op \in Mutators \cup {"gray"}

\* what an operation records of itself
Record(o, a, n, r, b) ==
    /\ op' = o
    /\ old' = value
    /\ arg' = a
    /\ pos' = n
    /\ ret' = r
    /\ retb' = b

\* an observation leaves the objects and the build as they are
Observe(o, a, n, r, b) ==
    /\ Live
    /\ Record(o, a, n, r, b)
    /\ ub' = FALSE
    /\ UNCHANGED <<digits, gnuc, msb, value, other, steps>>

\* a mutating operation that leaves v in the object and returns r; u tells
\* whether it evaluated an undefined expression
MutateReturning(o, a, n, v, r, u) ==
    /\ Live
    /\ steps < MaxSteps
    /\ value' = v
    /\ steps' = steps + 1
    /\ Record(o, a, n, r, FALSE)
    /\ ub' = u
    /\ UNCHANGED <<digits, gnuc, msb, other>>

\* a mutating operation that leaves v in the object and returns *this
Mutate(o, a, n, v) == MutateReturning(o, a, n, v, v, FALSE)

\* gray_code<Unsigned> gr; in every instantiation and build: value(0)
Init ==
    /\ digits \in Widths
    /\ gnuc \in BOOLEAN
    /\ msb \in msb_values(digits)
    /\ value = {}
    /\ other = {}
    /\ op = "gray_code()"
    /\ old = {}
    /\ arg = {}
    /\ pos = 0
    /\ ret = {}
    /\ retb = FALSE
    /\ ub = FALSE
    /\ steps = 0

\* gr = gray(x): the object of the block
Construct(x) ==
    /\ op = "gray_code()"
    /\ value' = gray(x, digits)
    /\ steps' = 0
    /\ Record("gray", x, 0, value', FALSE)
    /\ ub' = FALSE
    /\ UNCHANGED <<digits, gnuc, msb, other>>

\* the block ends and the next one default-constructs its object
EndBlock ==
    /\ op # "gray_code()"
    /\ value' = {}
    /\ steps' = 0
    /\ other' = {}
    /\ Record("gray_code()", {}, 0, {}, FALSE)
    /\ ub' = FALSE
    /\ UNCHANGED <<digits, gnuc, msb>>

\* ++gr
PreInc ==
    LET v == operator_inc(value, digits, gnuc, msb)
    IN  MutateReturning("operator++", {}, 0, v, v, msb_undefined(digits))

\* --gr
PreDec ==
    LET v == operator_dec(value, digits, gnuc, msb)
    IN  MutateReturning("operator--", {}, 0, v, v, msb_undefined(digits))

\* static_cast<value_type>(gr)
ConvertUnsigned ==
    Observe("operator value_type", {}, 0, operator_value_type(value, digits), FALSE)

\* is_odd(gr), is_even(gr)
IsOdd == Observe("is_odd", {}, 0, {}, is_odd(value, digits, gnuc))

IsEven == Observe("is_even", {}, 0, {}, is_even(value, digits, gnuc))

\* gr == h, gr != h for a gray_code h of representation h
EqGray(h) == Observe("gray == gray", h, 0, {}, operator_eq(value, h))

NeGray(h) == Observe("gray != gray", h, 0, {}, operator_ne(value, h))

\* gr == b, gr != b, b == gr, b != gr for an unsigned b
EqGrayUnsigned(b) ==
    Observe("gray == unsigned", b, 0, {}, operator_eq_gu(value, b, digits))

NeGrayUnsigned(b) ==
    Observe("gray != unsigned", b, 0, {}, operator_ne_gu(value, b, digits))

EqUnsignedGray(b) ==
    Observe("unsigned == gray", b, 0, {}, operator_eq_ug(b, value, digits))

NeUnsignedGray(b) ==
    Observe("unsigned != gray", b, 0, {}, operator_ne_ug(b, value, digits))

\* gr & h, gr | h, gr ^ h, ~gr, gr >> n, gr << n
And(h) == Observe("gray & gray", h, 0, operator_and(value, h, digits), FALSE)

Or(h) == Observe("gray | gray", h, 0, operator_or(value, h, digits), FALSE)

Xor(h) == Observe("gray ^ gray", h, 0, operator_xor(value, h, digits), FALSE)

Not == Observe("~gray", {}, 0, operator_not(value, digits), FALSE)

ShiftRight(n) == Observe("gray >> pos", {}, n, operator_shr(value, n, digits), FALSE)

ShiftLeft(n) == Observe("gray << pos", {}, n, operator_shl(value, n, digits), FALSE)

Next ==
    \/ \E x \in InputsOf[digits] : Construct(x)
    \/ EndBlock
    \/ PreInc
    \/ PreDec
    \/ ConvertUnsigned
    \/ IsOdd
    \/ IsEven
    \/ \E h \in OperandsOf[digits] : EqGray(h)
    \/ \E h \in OperandsOf[digits] : NeGray(h)
    \/ \E b \in OperandsOf[digits] : EqGrayUnsigned(b)
    \/ \E b \in OperandsOf[digits] : NeGrayUnsigned(b)
    \/ \E b \in OperandsOf[digits] : EqUnsignedGray(b)
    \/ \E b \in OperandsOf[digits] : NeUnsignedGray(b)
    \/ \E h \in OperandsOf[digits] : And(h)
    \/ \E h \in OperandsOf[digits] : Or(h)
    \/ \E h \in OperandsOf[digits] : Xor(h)
    \/ Not
    \/ \E n \in ShiftCountsOf[digits] : ShiftRight(n)
    \/ \E n \in ShiftCountsOf[digits] : ShiftLeft(n)

Spec == Init /\ [][Next]_vars

----------------------------------------------------------------------------
(* Increment and decrement alone: an object is constructed and stepped with
   the prefix and postfix operators *)

\* gr++
PostInc ==
    MutateReturning("operator++(int)", {}, 0,
                    operator_post_inc(value, digits, gnuc, msb),
                    operator_post_inc_result(value, digits, gnuc, msb),
                    msb_undefined(digits))

\* gr--
PostDec ==
    MutateReturning("operator--(int)", {}, 0,
                    operator_post_dec(value, digits, gnuc, msb),
                    operator_post_dec_result(value, digits, gnuc, msb),
                    msb_undefined(digits))

NextStep ==
    \/ \E x \in InputsOf[digits] : Construct(x)
    \/ PreInc
    \/ PreDec
    \/ PostInc
    \/ PostDec

SpecStep == Init /\ [][NextStep]_vars

----------------------------------------------------------------------------
(* Arithmetic on the represented numbers, for stating the properties *)

\* x + 1 for a bit pattern x (no width: the carry may leave the pattern)
PlusOne(x) ==
    LET k == CHOOSE i \in 0 .. 64 : i \notin x /\ \A j \in 0 .. (i - 1) : j \in x
    IN  (x \ Bits(k)) \cup {k}

\* x - 1 for a non-zero bit pattern x
MinusOne(x) ==
    LET k == CHOOSE i \in x : \A j \in x : i <= j
    IN  (x \ {k}) \cup Bits(k)

\* the representation of the successor of the code v, with wraparound
SuccessorOf(v, w) ==
    LET x == operator_value_type(v, w)
    IN  gray_code(IF x = Ones(w) THEN {} ELSE PlusOne(x), w)

\* the representation of the predecessor of the code v, with wraparound
PredecessorOf(v, w) ==
    LET x == operator_value_type(v, w)
    IN  gray_code(IF x = {} THEN Ones(w) ELSE MinusOne(x), w)

\* a + b of two bit patterns, unbounded: the carries are added until none
\* is left
RECURSIVE Plus(_, _)
Plus(a, b) ==
    IF b = {} THEN a
    ELSE Plus(BitXor(a, b), {i + 1 : i \in BitAnd(a, b)})

\* the number of set bits of v is odd
PopCountOdd(v) == Cardinality(v) % 2 = 1

\* a and b differ in exactly one bit position
OneBitApart(a, b) == Cardinality(BitXor(a, b)) = 1

\* the x-th word of the n-bit reflected code: the (n-1)-bit list prefixed
\* with 0, followed by its reverse prefixed with 1
RECURSIVE ReflectedWord(_, _)
ReflectedWord(x, n) ==
    IF n = 0 THEN {}
    ELSE IF (n - 1) \in x
         THEN {n - 1} \cup ReflectedWord(Bits(n - 1) \ x, n - 1)
         ELSE ReflectedWord(x, n - 1)

----------------------------------------------------------------------------
(* C1 *)

\* C1: round trip. Converting the gray_code constructed from any unsigned x
\* back with the explicit conversion to the unsigned type yields x, in every
\* width.
RoundTrip ==
    op = "operator value_type" =>
        \A x \in InputsOf[digits] : value = gray_code(x, digits) => ret = x

RoundTripWitness ==
    /\ op = "operator value_type"
    /\ digits = 64
    /\ value = gray_code(Ones(64), 64)
    /\ ret = Ones(64)

\* C2: successor. Prefix ++ applied to gray_code(x), x < 2^W - 1, leaves
\* the representation of gray_code(x + 1), in every width.
Successor ==
    op = "operator++" =>
        \A x \in InputsOf[digits] :
            (old = gray_code(x, digits) /\ x # Ones(digits))
                => value = gray_code(PlusOne(x), digits)

\* C3: predecessor. Prefix -- applied to gray_code(x), x > 0, leaves the
\* representation of gray_code(x - 1), in every width.
Predecessor ==
    op = "operator--" =>
        \A x \in InputsOf[digits] :
            (old = gray_code(x, digits) /\ x # {})
                => value = gray_code(MinusOne(x), digits)

\* C4: wraparound. ++ applied to gray_code(2^W - 1), whose representation is
\* 1 << (W-1) and equals the constant msb, yields representation 0, which
\* converts back to 0; -- applied to gray_code(0) yields 1 << (W-1), which
\* converts back to 2^W - 1.
Wraparound ==
    /\ (op = "operator++" /\ old = gray_code(Ones(digits), digits)) =>
            /\ old = {digits - 1}
            /\ old = msb
            /\ value = {}
            /\ operator_value_type(value, digits) = {}
    /\ (op = "operator--" /\ old = gray_code({}, digits)) =>
            /\ value = {digits - 1}
            /\ operator_value_type(value, digits) = Ones(digits)

\* C5: parity law. is_odd(gray_code(x)) is true iff the number of set bits
\* of its representation is odd iff x is odd; is_even is the negation of
\* is_odd.
ParityLaw ==
    /\ op = "is_odd" =>
            /\ retb = PopCountOdd(value)
            /\ \A x \in InputsOf[digits] :
                   value = gray_code(x, digits) => retb = (0 \in x)
    /\ op = "is_even" => retb = ~ is_odd(value, digits, gnuc)

\* C6: construction from an unsigned x stores x XOR (x >> 1), which is the
\* x-th word of the reflected code built by reflecting and prefixing; so
\* gray(0) = 0b0, gray(5) = 0b0111 and gray(24) = 0b10100.
GrayConstruction ==
    op = "gray" =>
        /\ value = BitXor(arg, ShiftR(arg, 1))
        /\ value = ReflectedWord(arg, digits)
        /\ arg = NatBits(0) => value = NatBits(0)
        /\ arg = NatBits(5) => value = NatBits(7)
        /\ arg = NatBits(24) => value = NatBits(20)

GrayConstructionWitness ==
    /\ op = "gray"
    /\ digits = 16
    /\ arg = NatBits(24)
    /\ value = NatBits(20)

\* C7: single-bit change. For every x < 2^W - 1 the representations of
\* gray_code(x) and gray_code(x + 1) differ in exactly one bit position.
SingleBitChange ==
    (op = "gray" /\ arg # Ones(digits))
        => OneBitApart(value, gray_code(PlusOne(arg), digits))

\* x = 2^(W-1) - 1: the carry of x + 1 runs through every bit below the top
SingleBitChangeWitness ==
    /\ op = "gray"
    /\ digits = 64
    /\ arg = Bits(63)
    /\ gray_code(PlusOne(arg), digits) = {62, 63}

\* C8: bijection. Distinct unsigned values get distinct representations, and
\* every representation y is the gray_code of the unsigned it converts to.
Bijection ==
    /\ op = "gray" =>
           \A y \in InputsOf[digits] : y # arg => gray_code(y, digits) # value
    /\ op = "operator value_type" => gray_code(ret, digits) = value

\* a representation reached by ++ / -- that is the code of no sampled input
BijectionWitness ==
    /\ op = "operator value_type"
    /\ steps = MaxSteps
    /\ \A x \in InputsOf[digits] : gray_code(x, digits) # value
    /\ ret # value

\* C9: equality is equality of the represented values. g == h iff the
\* converted-back values are equal; g == b and b == g iff
\* static_cast<T>(g) == b, equivalently iff g == gray(b); each != is the
\* negation of the corresponding ==.
EqualityOfValues ==
    LET bin(g) == operator_value_type(g, digits)
    IN  /\ op = "gray == gray" => retb = (bin(value) = bin(arg))
        /\ op = "gray != gray" => retb = ~ operator_eq(value, arg)
        /\ op \in {"gray == unsigned", "unsigned == gray"} =>
               /\ retb = (bin(value) = arg)
               /\ retb = operator_eq(value, gray(arg, digits))
        /\ op = "gray != unsigned" => retb = ~ operator_eq_gu(value, arg, digits)
        /\ op = "unsigned != gray" => retb = ~ operator_eq_ug(arg, value, digits)

\* equal values whose representations differ from the unsigned's bits
EqualityOfValuesWitness ==
    /\ op = "gray == unsigned"
    /\ retb
    /\ arg = NatBits(2)
    /\ value = NatBits(3)

\* C10: the bitwise operators between gray codes act on the stored
\* representations bit by bit: &, |, ^ and ~ within the W bits, << pos
\* modulo 2^W and >> pos, for pos < W.
BitwiseOnRepresentation ==
    LET W == Bits(digits)
    IN  /\ op = "gray & gray" => ret = {i \in W : i \in old /\ i \in arg}
        /\ op = "gray | gray" => ret = {i \in W : i \in old \/ i \in arg}
        /\ op = "gray ^ gray" => ret = {i \in W : (i \in old) # (i \in arg)}
        /\ op = "~gray" => ret = {i \in W : i \notin old}
        /\ op = "gray << pos" => ret = {i \in W : i >= pos /\ (i - pos) \in old}
        /\ op = "gray >> pos" => ret = {i \in W : (i + pos) \in old}

\* gray(6) & gray(3): 0b101 & 0b010 = 0, where 6 & 3 = 2 has the code 0b011
BitwiseOnRepresentationWitness ==
    /\ op = "gray & gray"
    /\ old = NatBits(5)
    /\ arg = NatBits(2)
    /\ ret = {}

----------------------------------------------------------------------------
(* Two objects and the operations that change them: assignment, compound
   assignment, shifts, increment, decrement and swap *)

\* auto gr1 = gray(x); auto gr2 = gray(y);
ConstructPair(x, y) ==
    /\ op = "gray_code()"
    /\ value' = gray(x, digits)
    /\ other' = gray(y, digits)
    /\ steps' = 0
    /\ Record("gray", x, 0, value', FALSE)
    /\ ub' = FALSE
    /\ UNCHANGED <<digits, gnuc, msb>>

\* gr1 = t
AssignUnsigned(t) ==
    Mutate("gray = unsigned", t, 0, operator_assign(value, t, digits))

\* gr1 = b
AssignBool(b) ==
    Mutate("gray = bool", FromBool(b), 0, operator_assign_bool(value, b, digits))

\* gr1 &= gr2, gr1 |= gr2, gr1 ^= gr2
AndAssignGray ==
    Mutate("gray &= gray", other, 0, operator_and_assign(value, other, digits))

OrAssignGray ==
    Mutate("gray |= gray", other, 0, operator_or_assign(value, other, digits))

XorAssignGray ==
    Mutate("gray ^= gray", other, 0, operator_xor_assign(value, other, digits))

\* gr1 &= t, gr1 |= t, gr1 ^= t
AndAssignUnsigned(t) ==
    Mutate("gray &= unsigned", t, 0, operator_and_assign_u(value, t, digits))

OrAssignUnsigned(t) ==
    Mutate("gray |= unsigned", t, 0, operator_or_assign_u(value, t, digits))

XorAssignUnsigned(t) ==
    Mutate("gray ^= unsigned", t, 0, operator_xor_assign_u(value, t, digits))

\* gr1 &= b, gr1 |= b, gr1 ^= b
AndAssignBool(b) ==
    Mutate("gray &= bool", FromBool(b), 0, operator_and_assign_b(value, b, digits))

OrAssignBool(b) ==
    Mutate("gray |= bool", FromBool(b), 0, operator_or_assign_b(value, b, digits))

XorAssignBool(b) ==
    Mutate("gray ^= bool", FromBool(b), 0, operator_xor_assign_b(value, b, digits))

\* gr1 >>= n
ShrAssign(n) ==
    \E v \in operator_shr_assign_outcomes(value, n, digits) :
        MutateReturning("gray >>= pos", {}, n, v, v, shift_undefined(n, digits))

\* gr1 <<= n
ShlAssign(n) ==
    \E v \in operator_shl_assign_outcomes(value, n, digits) :
        MutateReturning("gray <<= pos", {}, n, v, v, shift_undefined(n, digits))

\* swap(gr1, gr2)
Swap ==
    /\ Live
    /\ steps < MaxSteps
    /\ value' = swap_lhs(value, other)
    /\ other' = swap_rhs(value, other)
    /\ steps' = steps + 1
    /\ Record("swap", other, 0, {}, FALSE)
    /\ ub' = FALSE
    /\ UNCHANGED <<digits, gnuc, msb>>

NextMut ==
    \/ \E x, y \in MutOperandsOf[digits] : ConstructPair(x, y)
    \/ EndBlock
    \/ \E t \in MutOperandsOf[digits] : AssignUnsigned(t)
    \/ \E b \in BOOLEAN : AssignBool(b)
    \/ AndAssignGray
    \/ OrAssignGray
    \/ XorAssignGray
    \/ \E t \in MutOperandsOf[digits] : AndAssignUnsigned(t)
    \/ \E t \in MutOperandsOf[digits] : OrAssignUnsigned(t)
    \/ \E t \in MutOperandsOf[digits] : XorAssignUnsigned(t)
    \/ \E b \in BOOLEAN : AndAssignBool(b)
    \/ \E b \in BOOLEAN : OrAssignBool(b)
    \/ \E b \in BOOLEAN : XorAssignBool(b)
    \/ \E n \in AnyShiftCountsOf[digits] : ShrAssign(n)
    \/ \E n \in AnyShiftCountsOf[digits] : ShlAssign(n)
    \/ PreInc
    \/ PreDec
    \/ Swap

SpecMut == Init /\ [][NextMut]_vars

----------------------------------------------------------------------------
(* One object and the operations that mix it with a plain unsigned or a
   bool *)

\* t &= gr, t |= gr, t ^= gr: t is changed and returned, gr is passed by value
AndAssignToUnsigned(t) ==
    Observe("unsigned &= gray", t, 0, operator_and_assign_ug(t, value, digits), FALSE)

OrAssignToUnsigned(t) ==
    Observe("unsigned |= gray", t, 0, operator_or_assign_ug(t, value, digits), FALSE)

XorAssignToUnsigned(t) ==
    Observe("unsigned ^= gray", t, 0, operator_xor_assign_ug(t, value, digits), FALSE)

\* gr & b, b & gr, gr | b, b | gr, gr ^ b, b ^ gr
AndGrayBool(b) ==
    Observe("gray & bool", FromBool(b), 0, operator_and_gb(value, b, digits), FALSE)

AndBoolGray(b) ==
    Observe("bool & gray", FromBool(b), 0, operator_and_bg(b, value, digits), FALSE)

OrGrayBool(b) ==
    Observe("gray | bool", FromBool(b), 0, operator_or_gb(value, b, digits), FALSE)

OrBoolGray(b) ==
    Observe("bool | gray", FromBool(b), 0, operator_or_bg(b, value, digits), FALSE)

XorGrayBool(b) ==
    Observe("gray ^ bool", FromBool(b), 0, operator_xor_gb(value, b, digits), FALSE)

XorBoolGray(b) ==
    Observe("bool ^ gray", FromBool(b), 0, operator_xor_bg(b, value, digits), FALSE)

NextMixed ==
    \/ \E x \in OperandsOf[digits] : Construct(x)
    \/ EndBlock
    \/ \E t \in OperandsOf[digits] : AndAssignUnsigned(t)
    \/ \E t \in OperandsOf[digits] : OrAssignUnsigned(t)
    \/ \E t \in OperandsOf[digits] : XorAssignUnsigned(t)
    \/ \E t \in OperandsOf[digits] : AndAssignToUnsigned(t)
    \/ \E t \in OperandsOf[digits] : OrAssignToUnsigned(t)
    \/ \E t \in OperandsOf[digits] : XorAssignToUnsigned(t)
    \/ \E b \in BOOLEAN : AndAssignBool(b)
    \/ \E b \in BOOLEAN : OrAssignBool(b)
    \/ \E b \in BOOLEAN : XorAssignBool(b)
    \/ \E b \in BOOLEAN : AndGrayBool(b)
    \/ \E b \in BOOLEAN : AndBoolGray(b)
    \/ \E b \in BOOLEAN : OrGrayBool(b)
    \/ \E b \in BOOLEAN : OrBoolGray(b)
    \/ \E b \in BOOLEAN : XorGrayBool(b)
    \/ \E b \in BOOLEAN : XorBoolGray(b)

SpecMixed == Init /\ [][NextMixed]_vars

----------------------------------------------------------------------------
(* An object, a copy of it, and the value-returning operations called with
   them; each call is given with the value its by-value parameter ends with *)

\* a call o(gr, ...) returning r or b whose first parameter, a copy of gr,
\* holds p on return
Call(o, a, n, r, b, p) ==
    /\ Live
    /\ Record(o, a, n, r, b)
    /\ value' = pass_by_value(value, p)
    /\ ub' = FALSE
    /\ UNCHANGED <<digits, gnuc, msb, other, steps>>

\* auto h = gr;
CopyConstruct ==
    /\ Live
    /\ steps < MaxSteps
    /\ other' = copy_constructor(value)
    /\ steps' = steps + 1
    /\ Record("copy", {}, 0, other', FALSE)
    /\ ub' = FALSE
    /\ UNCHANGED <<digits, gnuc, msb, value>>

\* h = gr++;
CopyPostInc ==
    /\ Live
    /\ steps < MaxSteps
    /\ other' = operator_post_inc_result(value, digits, gnuc, msb)
    /\ value' = operator_post_inc(value, digits, gnuc, msb)
    /\ steps' = steps + 1
    /\ Record("copy = gray++", {}, 0, other', FALSE)
    /\ ub' = msb_undefined(digits)
    /\ UNCHANGED <<digits, gnuc, msb>>

\* ++h;
PreIncCopy ==
    /\ Live
    /\ steps < MaxSteps
    /\ other' = operator_inc(other, digits, gnuc, msb)
    /\ steps' = steps + 1
    /\ Record("++copy", {}, 0, other', FALSE)
    /\ ub' = msb_undefined(digits)
    /\ UNCHANGED <<digits, gnuc, msb, value>>

\* gr & h, gr | h, gr ^ h: return lhs op= rhs
CallAnd ==
    LET r == operator_and(value, other, digits)
    IN  Call("gray & gray", other, 0, r, FALSE, r)

CallOr ==
    LET r == operator_or(value, other, digits)
    IN  Call("gray | gray", other, 0, r, FALSE, r)

CallXor ==
    LET r == operator_xor(value, other, digits)
    IN  Call("gray ^ gray", other, 0, r, FALSE, r)

\* ~gr: val.value = ~val.value; return val
CallNot ==
    LET r == operator_not(value, digits)
    IN  Call("~gray", {}, 0, r, FALSE, r)

\* gr >> n, gr << n: return val >>= pos, return val <<= pos
CallShiftRight(n) ==
    LET r == operator_shr(value, n, digits)
    IN  Call("gray >> pos", {}, n, r, FALSE, r)

CallShiftLeft(n) ==
    LET r == operator_shl(value, n, digits)
    IN  Call("gray << pos", {}, n, r, FALSE, r)

\* gr == h, gr != h: the parameters are only read
CallEq == Call("gray == gray", other, 0, {}, operator_eq(value, other), value)

CallNe == Call("gray != gray", other, 0, {}, operator_ne(value, other), value)

\* is_odd(gr), is_even(gr): is_even passes its parameter on by value
CallIsOdd ==
    Call("is_odd", {}, 0, {}, is_odd(value, digits, gnuc),
         is_odd_parameter(value, digits, gnuc))

CallIsEven == Call("is_even", {}, 0, {}, is_even(value, digits, gnuc), value)

\* static_cast<Unsigned>(gr), static_cast<bool>(gr): const member functions
CallConvertUnsigned ==
    Call("operator value_type", {}, 0, operator_value_type(value, digits), FALSE, value)

CallConvertBool ==
    Call("operator bool", {}, 0, {}, operator_bool(value), value)

NextCopy ==
    \/ \E x \in OperandsOf[digits] : Construct(x)
    \/ EndBlock
    \/ CopyConstruct
    \/ CopyPostInc
    \/ PreIncCopy
    \/ PreInc
    \/ \E t \in MutOperandsOf[digits] : AssignUnsigned(t)
    \/ CallAnd
    \/ CallOr
    \/ CallXor
    \/ CallNot
    \/ \E n \in ShiftCountsOf[digits] : CallShiftRight(n)
    \/ \E n \in ShiftCountsOf[digits] : CallShiftLeft(n)
    \/ CallEq
    \/ CallNe
    \/ CallIsOdd
    \/ CallIsEven
    \/ CallConvertUnsigned
    \/ CallConvertBool

SpecCopy == Init /\ [][NextCopy]_vars

----------------------------------------------------------------------------
(* The parity functions: is_odd of the library and parity of the article,
   called with the representation of a constructed object *)

\* parity(gr.value)
Parity == Observe("parity", {}, 0, {}, parity(value, digits))

NextParity ==
    \/ \E x \in InputsOf[digits] : Construct(x)
    \/ EndBlock
    \/ IsOdd
    \/ Parity

SpecParity == Init /\ [][NextParity]_vars

----------------------------------------------------------------------------
(* The neighbours query of the article, called with a constructed object *)

\* neighbors(gr): ret holds the first element of the pair, arg the second
Neighbors ==
    /\ Live
    /\ Record("neighbors", neighbors_second(value, digits, msb), 0,
              neighbors_first(value, digits, msb), FALSE)
    /\ ub' = msb_undefined(digits)
    /\ UNCHANGED <<digits, gnuc, msb, value, other, steps>>

NextNeighbors ==
    \/ \E x \in InputsOf[digits] : Construct(x)
    \/ EndBlock
    \/ Neighbors

SpecNeighbors == Init /\ [][NextNeighbors]_vars

----------------------------------------------------------------------------
(* Halving and doubling by the formulae of the article, written with the
   operators of the library *)

\* gr >> 1
Halve == Observe("gray >> 1", {}, 1, operator_shr(value, 1, digits), FALSE)

\* (gr << 1) ^ is_odd(gr)
Double ==
    Observe("(gray << 1) ^ is_odd(gray)", {}, 1,
            operator_xor_gb(operator_shl(value, 1, digits),
                            is_odd(value, digits, gnuc), digits),
            FALSE)

NextDouble ==
    \/ \E x \in InputsOf[digits] : Construct(x)
    \/ EndBlock
    \/ Halve
    \/ Double

SpecDouble == Init /\ [][NextDouble]_vars

----------------------------------------------------------------------------
(* Two objects and their sum by the listings of the article *)

\* gr1 + gr2 (naive translation): pos holds the iterations made
AddNaive ==
    /\ Live
    /\ Record("gray + gray (naive)", other, digits,
              add_naive(value, other, digits, gnuc), TRUE)
    /\ ub' = FALSE
    /\ UNCHANGED <<digits, gnuc, msb, value, other, steps>>

\* gr1 + gr2 (final optimised version): pos holds the iterations made by
\* the two loops, retb whether the call returns
AddOptimised ==
    \E c \in add_optimised(value, other, digits, gnuc) :
        /\ Live
        /\ Record("gray + gray (optimised)", other, c.iterations, c.res, c.returns)
        /\ ub' = c.ub
        /\ UNCHANGED <<digits, gnuc, msb, value, other, steps>>

NextAdd ==
    \/ \E x, y \in AddendsOf[digits] : ConstructPair(x, y)
    \/ EndBlock
    \/ AddNaive
    \/ AddOptimised

SpecAdd == Init /\ [][NextAdd]_vars

----------------------------------------------------------------------------
(* The conversions alone, instantiated at every width 1 .. MaxDigits and run
   on every value of the width *)

InitAnyWidth ==
    /\ digits \in 1 .. MaxDigits
    /\ gnuc \in BOOLEAN
    /\ msb \in msb_values(digits)
    /\ value = {}
    /\ other = {}
    /\ op = "gray_code()"
    /\ old = {}
    /\ arg = {}
    /\ pos = 0
    /\ ret = {}
    /\ retb = FALSE
    /\ ub = FALSE
    /\ steps = 0

NextAnyWidth ==
    \/ \E x \in SUBSET Bits(digits) : Construct(x)
    \/ ConvertUnsigned
    \/ EndBlock

SpecAnyWidth == InitAnyWidth /\ [][NextAnyWidth]_vars

PowerOfTwo(w) == \E k \in 0 .. w : 2 ^ k = w

PostfixReturnsOld ==
    /\ op = "operator++(int)" =>
           /\ ret = old
           /\ value = operator_inc(old, digits, gnuc, msb)
    /\ op = "operator--(int)" =>
           /\ ret = old
           /\ value = operator_dec(old, digits, gnuc, msb)

PostfixReturnsOldWitness ==
    /\ op = "operator++(int)"
    /\ old = NatBits(7)
    /\ ret = NatBits(7)
    /\ value = NatBits(5)

\* C16: successor/predecessor inverse law. For every x below the maximum,
\* ++ and then -- applied to gray_code(x) gives back gray_code(x).
IncThenDec ==
    [][(/\ op = "operator++"
        /\ op' = "operator--"
        /\ \E x \in InputsOf[digits] :
               old = gray_code(x, digits) /\ x # Ones(digits))
       => value' = old]_vars

\* C18: the two implementations of is_odd agree on every representation of
\* every width: the intrinsic path returns what the portable loop returns.
IsOddPathsAgree ==
    op = "is_odd" =>
        /\ retb = is_odd(value, digits, TRUE)
        /\ retb = is_odd(value, digits, FALSE)

\* C11: mixed compound assignment acts on raw bits in both directions.
\* t op= gr leaves t op gr.value in t and gr as it was; gr op= t leaves
\* gr.value op t in gr, t taken bit for bit and not converted to Gray code.
MixedAssignRaw ==
    /\ op = "unsigned &= gray" => ret = BitAnd(arg, old) /\ value = old
    /\ op = "unsigned |= gray" => ret = BitOr(arg, old) /\ value = old
    /\ op = "unsigned ^= gray" => ret = BitXor(arg, old) /\ value = old
    /\ op = "gray &= unsigned" => value = BitAnd(old, arg)
    /\ op = "gray |= unsigned" => value = BitOr(old, arg)
    /\ op = "gray ^= unsigned" => value = BitXor(old, arg)

MixedAssignRawWitness ==
    /\ op = "gray ^= unsigned"
    /\ digits = 8
    /\ old = {0, 1}
    /\ arg = {1}
    /\ value = {0}
    /\ value # BitXor(old, gray_code(arg, digits))

\* C12: a bool operand is the one-bit pattern 0 or 1. gr op b and b op gr
\* both return gr.value op (b ? 1 : 0) and leave gr alone; gr op= b stores
\* that result in gr.
BoolAsBit ==
    \A b \in BOOLEAN :
        LET bit == IF b THEN {0} ELSE {}
        IN  arg = bit =>
            /\ op \in {"gray & bool", "bool & gray"} =>
                   ret = BitAnd(old, bit) /\ value = old
            /\ op \in {"gray | bool", "bool | gray"} =>
                   ret = BitOr(old, bit) /\ value = old
            /\ op \in {"gray ^ bool", "bool ^ gray"} =>
                   ret = BitXor(old, bit) /\ value = old
            /\ op = "gray &= bool" => value = BitAnd(old, bit)
            /\ op = "gray |= bool" => value = BitOr(old, bit)
            /\ op = "gray ^= bool" => value = BitXor(old, bit)

BoolAsBitWitness ==
    /\ op = "bool | gray"
    /\ digits = 16
    /\ old = {1}
    /\ arg = {0}
    /\ ret = {0, 1}

\* C13: assignment replaces the state. After gr = v the representation is
\* gray_code(v) whatever gr held, so gr == v and gr == gray(v); after
\* gr = b it is 0 or 1, the Gray code of 0 or 1.
AssignReplaces ==
    /\ op = "gray = unsigned" =>
           /\ value = gray_code(arg, digits)
           /\ operator_eq_gu(value, arg, digits)
           /\ operator_eq(value, gray(arg, digits))
    /\ op = "gray = bool" =>
           /\ value \in {{}, {0}}
           /\ value = arg
           /\ value = gray_code(arg, digits)

AssignReplacesWitness ==
    /\ op = "gray = unsigned"
    /\ digits = 8
    /\ old = {7}
    /\ arg = {1}
    /\ value = {0, 1}

\* C14: swap exchanges the two representations, equal or not, and a
\* second swap restores both.
SwapExchanges ==
    [][/\ op' = "swap" => value' = other /\ other' = value
       /\ (op = "swap" /\ op' = "swap") => value' = old /\ other' = arg]_vars

SwapExchangesWitness ==
    /\ op = "swap"
    /\ steps = 2
    /\ digits = 8
    /\ old = {0, 1}
    /\ arg = {7}
    /\ value = {7}
    /\ other = {0, 1}

\* C19: every operation is total. No operation, with any argument and any
\* shift count, reaches an undefined outcome.
Total == ~ub

\* C20: representation invariant. After any sequence of the mutating
\* operations both objects hold W-bit patterns: no bit at a position >= W.
RepresentationInRange ==
    /\ value \subseteq Bits(digits)
    /\ other \subseteq Bits(digits)

RepresentationInRangeWitness ==
    /\ op = "gray <<= pos"
    /\ digits = 8
    /\ steps = 2
    /\ old = {0, 1}
    /\ pos = 7
    /\ value = {7}

\* the value-returning operations
ValueReturning ==
    {"gray & gray", "gray | gray", "gray ^ gray", "~gray", "gray >> pos",
     "gray << pos", "gray == gray", "gray != gray", "is_odd", "is_even",
     "operator value_type", "operator bool"}

\* C21: copies are independent and value-returning operations have no
\* effect on their operands. A copy starts with the value of its source;
\* afterwards no operation on the object changes the copy, none on the copy
\* changes the object, and &, |, ^, ~, <<, >>, ==, !=, is_odd, is_even and
\* the conversions change neither.
CopiesIndependent ==
    [][/\ op' \in ValueReturning => value' = value /\ other' = other
       /\ op' = "copy" => other' = value /\ value' = value
       /\ op' = "copy = gray++" => other' = value
       /\ op' = "++copy" => value' = value
       /\ op' \in {"operator++", "gray = unsigned"} => other' = other]_vars

CopiesIndependentWitness ==
    /\ op = "is_odd"
    /\ ~gnuc
    /\ digits = 8
    /\ steps = 2
    /\ value = {0, 1}
    /\ other = {}
    /\ old = value
    /\ is_odd_parameter(value, digits, gnuc) # value

\* C23: the portable parity algorithms equal the population count modulo
\* 2. The full fold of is_odd (build without the intrinsic) and the
\* article's parity with its lookup table both return true exactly for the
\* values with an odd number of set bits, in widths 8, 16, 32 and 64.
ParityIsPopCount ==
    /\ (op = "is_odd" /\ ~gnuc) => retb = PopCountOdd(value)
    /\ op = "parity" => retb = PopCountOdd(value)

ParityIsPopCountWitness ==
    /\ op = "parity"
    /\ digits = 64
    /\ value = {32}
    /\ retb

\* C24: the neighbours query returns, for every representation, the
\* predecessor and the successor of the code (with wraparound), in some
\* order.
NeighborsArePredAndSucc ==
    op = "neighbors" =>
        {ret, arg} = {PredecessorOf(value, digits), SuccessorOf(value, digits)}

\* C25: incremental parity tracking is equivalent to recomputing parity.
\* A boolean toggled at each step stays equal to is_odd of the object
\* through any number of ++ steps: is_odd(++g) is the negation of is_odd(g)
\* for every representation.
ParityAlternates ==
    op = "operator++" =>
        is_odd(value, digits, gnuc) # is_odd(old, digits, gnuc)

\* C26: ++ is one cycle over all bit patterns and -- the same cycle in the
\* opposite direction, so the two are mutual inverses on every pattern:
\* -- undoes the ++ just made and ++ undoes the -- just made.
MutualInverses ==
    /\ op = "operator++" => operator_dec(value, digits, gnuc, msb) = old
    /\ op = "operator--" => operator_inc(value, digits, gnuc, msb) = old

\* C27: every single ++ or -- changes exactly one bit of the stored
\* representation, the two wraparound steps included; no step is a no-op.
OneBitPerStep ==
    op \in {"operator++", "operator--"} => OneBitApart(old, value)

\* C28: halving and doubling work on the representation. For a gray code
\* representing n, gr >> 1 represents floor(n / 2) and
\* (gr << 1) ^ is_odd(gr) represents 2n modulo 2^W.
HalveAndDouble ==
    LET n == operator_value_type(value, digits)
    IN  /\ op = "gray >> 1" =>
               operator_value_type(ret, digits) = ShiftR(n, 1)
        /\ op = "(gray << 1) ^ is_odd(gray)" =>
               operator_value_type(ret, digits) = ShiftL(n, 1, digits)

\* C29: Lucal's addition computes the sum without converting. For gray(a)
\* and gray(b) with a + b < 2^W, the naive listing and the final optimised
\* listing both return the gray code of representation gray_code(a + b).
LucalSum ==
    LET a == operator_value_type(value, digits)
        b == operator_value_type(other, digits)
    IN  (/\ op \in {"gray + gray (naive)", "gray + gray (optimised)"}
         /\ Plus(a, b) \subseteq Bits(digits))
        => (retb /\ ret = gray_code(Plus(a, b), digits))

\* C30: the final optimised addition always terminates. For every pair of
\* operands, sums of 2^W and more included, the call returns after at most
\* W iterations of its two loops together.
LucalTerminates ==
    op = "gray + gray (optimised)" => (retb /\ pos <= digits)

============================================================================
